---- MODULE Spec2Model ----
(***************************************************************************)
(* project-better-health-backend: routes/auth.js (register, login, Google  *)
(* callback, check-email, forgot-password, reset-password), config/oauth.js*)
(* (Google verify callback), middleware/auth.js (protect), utils/tokens.js *)
(* (generateToken), routes/user.js (profile), routes/water.js (water log), *)
(* app.js (route mounting) and the User and Water schemas.                 *)
(*                                                                         *)
(* Every request handler is an async function: it runs atomically up to    *)
(* its next database await.  A handler with one database call is one       *)
(* action; a handler that reads and then writes is two actions, with its   *)
(* suspended continuation kept in the bag inflight between them.           *)
(*                                                                         *)
(* Strings are sequences of symbols, so that toLowerCase, startsWith and   *)
(* the hash functions are computed and not assumed.  A hash is its tag in  *)
(* front of its input: injective, and never equal to its input.            *)
(***************************************************************************)
EXTENDS Integers, Sequences, FiniteSets, Bags, TLC

VARIABLES
  users,      \* the users collection: a sequence of documents, _id = index
  inflight,   \* bag of suspended handler continuations (awaiting the database)
  now,        \* Date.now(), in milliseconds
  issuedAt,   \* history: the time of each crypto.randomBytes(32) draw, in order
  consumed,   \* history: raw reset secrets reset-password has answered 200 to
  water,      \* the water collection: a sequence of entries, _id = index
  resp        \* the response written by the last handler step

vars == <<users, inflight, now, issuedAt, consumed, water, resp>>

----------------------------------------------------------------------------
(* Bounds of the model *)

MaxUsers == 2
MaxInflight == 2
MaxTicks == 2
MaxSecrets == 2

----------------------------------------------------------------------------
(* Strings *)

Absent == <<>>

LowerChar(c) ==
  IF c = "A" THEN "a" ELSE IF c = "B" THEN "b" ELSE c

\* String.prototype.toLowerCase, applied by the schema's lowercase setter
ToLowerCase(s) == [i \in DOMAIN s |-> LowerChar(s[i])]

\* String.prototype.startsWith
StartsWith(s, prefix) ==
  /\ Len(s) >= Len(prefix)
  /\ SubSeq(s, 1, Len(prefix)) = prefix

\* String.prototype.length: the characters of all the symbols
RECURSIVE JsLength(_)
JsLength(s) == IF s = <<>> THEN 0 ELSE Len(Head(s)) + JsLength(Tail(s))

Emails == {<<"a", "@x.com">>, <<"A", "@x.com">>, <<"b", "@x.com">>}
Passwords == {<<"secret1">>, <<"pw2">>}
ProviderIds == {<<"google-id-1">>}

----------------------------------------------------------------------------
(* Credential hasher: bcryptjs *)

IsBcryptHash(h) == h # Absent /\ Head(h) = "$2a$12$"

\* bcrypt.hash(password, 12); the random salt is left out: no handler reads it
BcryptHash(password) == <<"$2a$12$">> \o password

\* bcrypt.compare(password, hash) for two strings: false for a string that is
\* no bcrypt hash
BcryptCompare(password, hash) ==
  IsBcryptHash(hash) /\ hash = BcryptHash(password)

\* bcryptjs rejects ("Illegal arguments") when an argument is not a string
BcryptCompareThrows(password, hash) == password = Absent \/ hash = Absent

----------------------------------------------------------------------------
(* Session tokens: jsonwebtoken *)

\* process.env.JWT_EXPIRE = '90m', in seconds: one and a half steps of the
\* clock, so that a token is seen both within and past its lifetime
JWT_EXPIRE == 5400

\* the HS256 signature: a keyed digest of the payload
Hs256(secret, id, iat, exp) == <<"HS256", secret, id, iat, exp>>

NoJwt == [id |-> 0, iat |-> 0, exp |-> 0, sig |-> <<>>]

\* jwt.sign({ id: userId }, JWT_SECRET, { expiresIn: JWT_EXPIRE })
generateToken(userId) ==
  LET iat == now \div 1000
  IN [id |-> userId, iat |-> iat, exp |-> iat + JWT_EXPIRE,
      sig |-> Hs256("JWT_SECRET", userId, iat, iat + JWT_EXPIRE)]

----------------------------------------------------------------------------
(* The User model *)

NoProviders == <<>>

UserDoc(name, email, password, authMethod, oauthProviders) ==
  [name |-> name, email |-> ToLowerCase(email), password |-> password,
   avatar |-> Absent, authMethod |-> authMethod,
   oauthProviders |-> oauthProviders,
   resetPasswordToken |-> Absent, resetPasswordExpire |-> 0]

Ids == 1..Len(users)

\* Faulty variant: the query compares the email as it was typed
FindOneByEmail_caseSensitive(email) ==
  LET hit == {i \in Ids : users[i].email = email}
  IN IF hit = {} THEN 0 ELSE CHOOSE i \in hit : \A j \in hit : i <= j

\* User.findOne({ email }): the query value goes through the lowercase setter
FindOneByEmail(email) ==
  LET hit == {i \in Ids : users[i].email = ToLowerCase(email)}
  IN IF hit = {} THEN 0 ELSE CHOOSE i \in hit : \A j \in hit : i <= j

\* User.findById(id)
FindById(id) == IF id \in Ids THEN id ELSE 0

\* Faulty variant: the password is part of what a query returns
Selected_all(doc) == doc

\* the document a query returns: password has select: false and is left out
Selected(doc) == [f \in DOMAIN doc \ {"password"} |-> doc[f]]

\* password.required: only if the user has no OAuth providers
PasswordRequired(doc) == doc.oauthProviders = NoProviders

\* schema validation run by User.create and by save: name required and at
\* most 50 long, email required, password required (see above) and at least
\* 6 long
ValidUser(doc) ==
  /\ doc.name # Absent
  /\ JsLength(doc.name) <= 50
  /\ doc.email # Absent
  /\ (PasswordRequired(doc) => doc.password # Absent)
  /\ (doc.password # Absent => JsLength(doc.password) >= 6)

\* Faulty variant: no unique index
UniqueIndexAllows_noIndex(doc) == TRUE

\* the unique index on email: E11000 on a second document with the same email
UniqueIndexAllows(doc) == \A i \in Ids : users[i].email # doc.email

\* User.create(doc) succeeds: validation first, then the insert
CreateSucceeds(doc) == ValidUser(doc) /\ UniqueIndexAllows(doc)

\* the message of the error User.create throws
CreateError(doc) ==
  IF ~ValidUser(doc) THEN "User validation failed"
  ELSE "E11000 duplicate key error"

----------------------------------------------------------------------------
(* Requests, continuations, responses *)

Cont(op, name, email, password, token, doc) ==
  [op |-> op, name |-> name, email |-> email, password |-> password,
   token |-> token, doc |-> doc]

Resp(op, status, message) ==
  [op |-> op, status |-> status, message |-> message, token |-> NoJwt,
   user |-> 0, data |-> {}, list |-> <<>>, count |-> 0, total |-> 0,
   average |-> 0,
   resetUrl |-> Absent, about |-> Absent]

NoResp == Resp("", 0, "")

Inflight == BagToSet(inflight)
NumInflight == BagCardinality(inflight)
InflightOf(ops) ==
  BagCardinality([c \in {d \in Inflight : d.op \in ops} |-> inflight[c]])
Creating == InflightOf({"register", "google"})
Forgetting == InflightOf({"forgot"})
NumSecrets == Len(issuedAt)

Suspend(c) == inflight' = inflight (+) SetToBag({c})
Resume(c) == inflight' = inflight (-) SetToBag({c})

\* room for one more document and one more continuation (bounds of the model)
CanCreate == Len(users) + Creating < MaxUsers
CanSuspend == NumInflight < MaxInflight

Init ==
  /\ users = <<>>
  /\ inflight = EmptyBag
  /\ now = 0
  /\ issuedAt = <<>>
  /\ consumed = {}
  /\ water = <<>>
  /\ resp = NoResp

----------------------------------------------------------------------------
(* POST /api/auth/register *)

\* Faulty variant: the password is stored as it was typed
RegisterDoc_plain(name, email, password) ==
  UserDoc(name, email, password, "email", NoProviders)

\* the document register creates
RegisterDoc(name, email, password) ==
  UserDoc(name, email, BcryptHash(password), "email", NoProviders)

DuplicateEmail(email) ==
  [Resp("register", 400, "User already exists with this email")
     EXCEPT !.about = email]

\* the user object register and login answer with: id, name and email
Public(id, doc) == [id |-> id, name |-> doc.name, email |-> doc.email]

RegisterOk(id, doc) ==
  [Resp("register", 201, "") EXCEPT !.token = generateToken(id), !.user = id,
                                    !.data = {Public(id, doc)}]

\* findOne, and bcrypt.hash: the handler answers 400 for a known email, 500
\* when bcrypt.hash rejects a missing password, and otherwise awaits User.create
Register(name, email, password) ==
  /\ UNCHANGED <<users, now, issuedAt, consumed, water>>
  /\ IF FindOneByEmail(email) # 0
       THEN /\ resp' = DuplicateEmail(email)
            /\ UNCHANGED inflight
     ELSE IF password = Absent
       THEN /\ resp' = Resp("register", 500, "Illegal arguments: undefined, number")
            /\ UNCHANGED inflight
     ELSE /\ CanCreate /\ CanSuspend
          /\ Suspend(Cont("register", name, email, password, Absent, 0))
          /\ resp' = NoResp

\* User.create, generateToken and the 201 response; 500 when create throws
RegisterCreate(c) ==
  /\ c.op = "register"
  /\ Resume(c)
  /\ UNCHANGED <<now, issuedAt, consumed, water>>
  /\ LET doc == RegisterDoc(c.name, c.email, c.password)
     IN IF CreateSucceeds(doc)
          THEN /\ users' = Append(users, doc)
               /\ resp' = RegisterOk(Len(users) + 1, doc)
          ELSE /\ UNCHANGED users
               /\ resp' = Resp("register", 500, CreateError(doc))

----------------------------------------------------------------------------
(* POST /api/auth/login *)

InvalidCredentials == Resp("login", 401, "Invalid email or password")

LoginResponse(email, password) ==
  LET id == FindOneByEmail(email)
  IN IF id = 0 THEN InvalidCredentials
     ELSE IF BcryptCompareThrows(password, users[id].password)
       THEN Resp("login", 500, "Illegal arguments")
     ELSE IF ~BcryptCompare(password, users[id].password)
       THEN InvalidCredentials
     ELSE [Resp("login", 200, "") EXCEPT !.token = generateToken(id), !.user = id,
                                         !.data = {Public(id, users[id])}]

Login(email, password) ==
  /\ resp' = LoginResponse(email, password)
  /\ UNCHANGED <<users, inflight, now, issuedAt, consumed, water>>

----------------------------------------------------------------------------
(* GET /api/auth/google/callback: the GoogleStrategy verify callback, then
   the route handler *)

\* Faulty variant: the provider binding is left out
GoogleDoc_noBinding(displayName, email, providerId) ==
  UserDoc(displayName, email, <<"google-oauth-", ToString(now)>>, "google",
          NoProviders)

GoogleDoc(displayName, email, providerId) ==
  UserDoc(displayName, email, <<"google-oauth-", ToString(now)>>, "google",
          <<[provider |-> "google", providerId |-> providerId]>>)

GoogleOk(id) ==
  [Resp("google", 200, "") EXCEPT !.token = generateToken(id), !.user = id]

\* findOne: an existing user is handed to the route as it is
GoogleCallback(displayName, email, providerId) ==
  /\ UNCHANGED <<users, now, issuedAt, consumed, water>>
  /\ IF FindOneByEmail(email) # 0
       THEN /\ resp' = GoogleOk(FindOneByEmail(email))
            /\ UNCHANGED inflight
       ELSE /\ CanCreate /\ CanSuspend
            /\ Suspend(Cont("google", displayName, email, Absent, providerId, 0))
            /\ resp' = NoResp

\* User.create; done(error) ends in Express's error handler
GoogleCreate(c) ==
  /\ c.op = "google"
  /\ Resume(c)
  /\ UNCHANGED <<now, issuedAt, consumed, water>>
  /\ LET doc == GoogleDoc(c.name, c.email, c.token)
     IN IF CreateSucceeds(doc)
          THEN /\ users' = Append(users, doc)
               /\ resp' = GoogleOk(Len(users) + 1)
          ELSE /\ UNCHANGED users
               /\ resp' = Resp("google", 500, CreateError(doc))

----------------------------------------------------------------------------
(* The clock *)

ResetTtlMs == 3600000
\* the clock moves in steps of the reset lifetime, so that an expiry is met
\* exactly
TickMs == ResetTtlMs

Tick ==
  /\ now < MaxTicks * TickMs
  /\ now' = now + TickMs
  /\ resp' = NoResp
  /\ UNCHANGED <<users, inflight, issuedAt, consumed, water>>

----------------------------------------------------------------------------
(* Reset-token manager: POST /api/auth/forgot-password and
   POST /api/auth/reset-password *)

\* crypto.randomBytes(32).toString('hex'): the n-th draw, never drawn before
RandomHex(n) == <<"hex", ToString(n)>>

\* Faulty variant: a digest that does not depend on the token
Sha256_ignoresInput(token) == <<"sha256:">>

\* crypto.createHash('sha256').update(token).digest('hex')
Sha256(token) == <<"sha256:">> \o token

ForgotGeneric ==
  Resp("forgot-password", 200,
       "If an account exists, you will receive a reset email shortly.")

ForgotIssued(resetToken) ==
  [Resp("forgot-password", 200, "Password reset link generated")
     EXCEPT !.resetUrl = resetToken]

\* findOne: the generic answer for an unknown email, else the handler goes on
ForgotPassword(email) ==
  /\ UNCHANGED <<users, now, issuedAt, consumed, water>>
  /\ IF FindOneByEmail(email) = 0
       THEN /\ resp' = ForgotGeneric
            /\ UNCHANGED inflight
       ELSE /\ CanSuspend
            /\ NumSecrets + Forgetting < MaxSecrets
            /\ Suspend(Cont("forgot", Absent, Absent, Absent, Absent,
                            FindOneByEmail(email)))
            /\ resp' = NoResp

\* Faulty variant: the raw secret is stored
StoredResetToken_raw(resetToken) == resetToken

\* what forgot-password stores in resetPasswordToken
StoredResetToken(resetToken) == Sha256(resetToken)

\* Faulty variant: the expiry without the clock
ResetExpiry_noClock == ResetTtlMs

\* what forgot-password stores in resetPasswordExpire
ResetExpiry == now + ResetTtlMs

\* randomBytes, sha256, the two fields, user.save() and the answer
ForgotSave(c) ==
  /\ c.op = "forgot"
  /\ Resume(c)
  /\ LET resetToken == RandomHex(NumSecrets + 1)
     IN /\ users' = [users EXCEPT
                       ![c.doc].resetPasswordToken = StoredResetToken(resetToken),
                       ![c.doc].resetPasswordExpire = ResetExpiry]
        /\ resp' = ForgotIssued(resetToken)
  /\ issuedAt' = Append(issuedAt, now)
  /\ UNCHANGED <<now, consumed, water>>

\* Faulty variant: the lookup without the expiry condition
FindOneByResetToken_noExpiry(token) ==
  LET hit == {i \in Ids : users[i].resetPasswordToken = Sha256(token)}
  IN IF hit = {} THEN 0 ELSE CHOOSE i \in hit : \A j \in hit : i <= j

\* User.findOne({ resetPasswordToken, resetPasswordExpire: { $gt: Date.now() } })
FindOneByResetToken(token) ==
  LET hit == {i \in Ids : /\ users[i].resetPasswordToken = Sha256(token)
                          /\ users[i].resetPasswordExpire > now}
  IN IF hit = {} THEN 0 ELSE CHOOSE i \in hit : \A j \in hit : i <= j

InvalidOrExpiredToken(token) ==
  [Resp("reset-password", 400, "Invalid or expired reset token")
     EXCEPT !.about = token]

\* the body check and findOne
ResetPassword(token, password) ==
  /\ UNCHANGED <<users, now, issuedAt, consumed, water>>
  /\ IF token = Absent \/ password = Absent
       THEN /\ resp' = Resp("reset-password", 400, "Token and password are required")
            /\ UNCHANGED inflight
     ELSE IF FindOneByResetToken(token) = 0
       THEN /\ resp' = InvalidOrExpiredToken(token)
            /\ UNCHANGED inflight
     ELSE /\ CanSuspend
          /\ Suspend(Cont("reset", Absent, Absent, password, token,
                          FindOneByResetToken(token)))
          /\ resp' = NoResp

\* Faulty variant: the new password is stored as it was typed
ResetUpdate_plain(doc, password) ==
  [doc EXCEPT !.password = password,
              !.resetPasswordToken = Absent,
              !.resetPasswordExpire = 0]

\* Faulty variant: the reset digest is not cleared
ResetUpdate_keepsToken(doc, password) ==
  [doc EXCEPT !.password = BcryptHash(password)]

\* Faulty variant: the digest is cleared and the expiry is not
ResetUpdate_keepsExpiry(doc, password) ==
  [doc EXCEPT !.password = BcryptHash(password),
              !.resetPasswordToken = Absent]

\* the document as reset-password saves it
ResetUpdate(doc, password) ==
  [doc EXCEPT !.password = BcryptHash(password),
              !.resetPasswordToken = Absent,
              !.resetPasswordExpire = 0]

\* bcrypt.hash, the three fields, user.save() and the answer
ResetSave(c) ==
  /\ c.op = "reset"
  /\ Resume(c)
  /\ users' = [users EXCEPT ![c.doc] = ResetUpdate(users[c.doc], c.password)]
  /\ consumed' = consumed \cup {c.token}
  /\ resp' = [Resp("reset-password", 200, "Password reset successfully")
                EXCEPT !.about = c.token]
  /\ UNCHANGED <<now, issuedAt, water>>

\* Faulty variant: the lookup of the page check without the expiry condition
FindOneForVerify_noExpiry(token) ==
  LET hit == {i \in Ids : users[i].resetPasswordToken = Sha256(token)}
  IN IF hit = {} THEN 0 ELSE CHOOSE i \in hit : \A j \in hit : i <= j

\* GET /verify-reset-token/:token: its own sha256 and findOne
FindOneForVerify(token) ==
  LET hashedToken == <<"sha256:">> \o token
      hit == {i \in Ids : /\ users[i].resetPasswordToken = hashedToken
                          /\ users[i].resetPasswordExpire > now}
  IN IF hit = {} THEN 0 ELSE CHOOSE i \in hit : \A j \in hit : i <= j

\* the redirect to the reset page for a token that matches, to the invalid
\* page for one that does not
VerifyResetToken(token) ==
  /\ resp' = [Resp("verify-reset-token", 302,
                    IF FindOneForVerify(token) = 0 THEN "/reset-invalid.html"
                    ELSE "/reset-password.html?token=")
               EXCEPT !.about = token]
  /\ UNCHANGED <<users, inflight, now, issuedAt, consumed, water>>

\* the tokens a client may send: every secret the server can issue, one it
\* never issues, what the database stores for the first one, and none
ResetTokens ==
  {RandomHex(n) : n \in 1..MaxSecrets}
    \cup {<<"hex", "never">>, Sha256(RandomHex(1)), Absent}

\* the request bodies a client may send: a token with a new password, and a
\* token without one
ResetBodies ==
  {<<k, <<"pw2">>>> : k \in ResetTokens} \cup {<<RandomHex(1), Absent>>}

----------------------------------------------------------------------------
(* Auth gate: middleware/auth.js *)

Bearer == <<"B", "e", "a", "r", "e", "r">>

\* An Authorization header, as split(' ') sees it: its first word, and the
\* words after it (session tokens).  NoHeader is the header left out.
Header(scheme, rest) == [scheme |-> scheme, rest |-> rest]
NoHeader == Header(Absent, <<>>)

\* the test on req.headers.authorization
HasBearer(h) == h # NoHeader /\ StartsWith(h.scheme, Bearer)

\* req.headers.authorization.split(' ')[1]
ExtractToken(h) ==
  IF HasBearer(h) /\ Len(h.rest) >= 1 THEN h.rest[1] ELSE NoJwt

\* Faulty variant: the expiry is not looked at
JwtVerifies_noExpiry(token) ==
  token.sig = Hs256("JWT_SECRET", token.id, token.iat, token.exp)

\* jwt.verify(token, JWT_SECRET) returns the payload: the signature is the
\* keyed digest of the payload and the token is not expired
JwtVerifies(token) ==
  /\ token.sig = Hs256("JWT_SECRET", token.id, token.iat, token.exp)
  /\ ~(now \div 1000 >= token.exp)

Unauthorized == Resp("protect", 401, "Not authorized to access this route")

\* next() was called with req.user = id
NextCalled(id) == [Resp("protect", 0, "next") EXCEPT !.user = id]

\* Faulty variant: a user with a pending password reset is locked out
protectResult_lockedWhileReset(h) ==
  LET token == ExtractToken(h)
  IN IF token = NoJwt THEN Unauthorized
     ELSE IF ~JwtVerifies(token) THEN Unauthorized
     ELSE IF FindById(token.id) = 0 THEN Resp("protect", 401, "User not found")
     ELSE IF users[FindById(token.id)].resetPasswordToken # Absent
       THEN Unauthorized
     ELSE NextCalled(FindById(token.id))

protectResult(h) ==
  LET token == ExtractToken(h)
  IN IF token = NoJwt THEN Unauthorized
     ELSE IF ~JwtVerifies(token) THEN Unauthorized
     ELSE IF FindById(token.id) = 0 THEN Resp("protect", 401, "User not found")
     ELSE NextCalled(FindById(token.id))

\* the outcome, with the first word of the header it answers
protect(h) ==
  /\ resp' = [protectResult(h) EXCEPT !.about = h.scheme]
  /\ UNCHANGED <<users, inflight, now, issuedAt, consumed, water>>

\* the session tokens a client may hold: signed by generateToken at a past
\* time for a user id; the same signed with another secret; the same with
\* the payload altered under the old signature (another subject, a later
\* expiry); and none
Times == {k * TickMs : k \in 0..MaxTicks}
IssuedAt(id, t) ==
  LET iat == t \div 1000
  IN [id |-> id, iat |-> iat, exp |-> iat + JWT_EXPIRE,
      sig |-> Hs256("JWT_SECRET", id, iat, iat + JWT_EXPIRE)]
ClientTokens ==
  LET issued == {IssuedAt(id, t) : id \in 1..(Len(users) + 1),
                                   t \in {u \in Times : u <= now}}
  IN issued
       \cup {[k EXCEPT !.sig = Hs256("other", k.id, k.iat, k.exp)] : k \in issued}
       \cup {[k EXCEPT !.id = 1] : k \in issued}
       \cup {[k EXCEPT !.exp = k.exp + JWT_EXPIRE] : k \in issued}
       \cup {NoJwt}

Schemes == {Bearer, Bearer \o <<"x">>, <<"B", "a", "s", "i", "c">>, <<"b", "e", "a", "r", "e", "r">>}

Headers ==
  {NoHeader} \cup {Header(s, <<>>) : s \in Schemes}
    \cup {Header(s, <<k>>) : s \in Schemes, k \in ClientTokens}

----------------------------------------------------------------------------
(* GET /api/auth/check-email/:email *)

\* findOne, and the document found (or null) as the user of the answer
CheckEmail(email) ==
  /\ resp' = [Resp("check-email", 200, "")
               EXCEPT !.user = FindOneByEmail(email),
                      !.data = IF FindOneByEmail(email) = 0 THEN {}
                               ELSE {Selected(users[FindOneByEmail(email)])}]
  /\ UNCHANGED <<users, inflight, now, issuedAt, consumed, water>>

----------------------------------------------------------------------------
(* routes/user.js: GET and PUT /profile, behind protect *)

\* GET /profile: protect, then req.user as the user of the answer
GetProfile(h) ==
  /\ resp' = IF protectResult(h).message = "next"
               THEN [Resp("GET /profile", 200, "")
                       EXCEPT !.user = protectResult(h).user,
                              !.data = {Selected(users[protectResult(h).user])}]
               ELSE protectResult(h)
  /\ UNCHANGED <<users, inflight, now, issuedAt, consumed, water>>

\* PUT /profile: protect, then the handler awaits findByIdAndUpdate
PutProfile(h, name, avatar) ==
  /\ UNCHANGED <<users, now, issuedAt, consumed, water>>
  /\ IF protectResult(h).message = "next"
       THEN /\ CanSuspend
            /\ Suspend(Cont("profile", name, Absent, Absent, avatar,
                            protectResult(h).user))
            /\ resp' = NoResp
       ELSE /\ resp' = protectResult(h)
            /\ UNCHANGED inflight

\* the document after { name, avatar } is set: a key left out of the body is
\* undefined and is not written
ProfileUpdate(doc, name, avatar) ==
  [doc EXCEPT !.name = IF name = Absent THEN @ ELSE name,
              !.avatar = IF avatar = Absent THEN @ ELSE avatar]

\* findByIdAndUpdate(req.user.id, { name, avatar }, { new: true,
\* runValidators: true }) and the updated document as the user of the answer
PutProfileUpdate(c) ==
  /\ c.op = "profile"
  /\ Resume(c)
  /\ UNCHANGED <<now, issuedAt, consumed, water>>
  /\ IF JsLength(c.name) <= 50
       THEN /\ users' = [users EXCEPT ![c.doc] = ProfileUpdate(@, c.name, c.token)]
            /\ resp' = [Resp("PUT /profile", 200, "")
                          EXCEPT !.user = c.doc,
                                 !.data = {Selected(users'[c.doc])}]
       ELSE /\ UNCHANGED users
            /\ resp' = Resp("PUT /profile", 500, "Validation failed")

\* the profile bodies a client may send: a name and an avatar, and neither
ProfileBodies == {<<<<"Bob">>, <<"http://x/a.png">>>>, <<Absent, Absent>>}

----------------------------------------------------------------------------
(* routes/water.js: the water log, every route behind router.use(protect) *)

MaxEntries == 2

DayMs == 86400000

\* a number of the request body or of a document: {} when it is left out
\* (undefined), {n} when it is n
Missing == {}
Num(n) == {n}
Val(x) == CHOOSE n \in x : TRUE

\* a document of the water collection; live is FALSE once it was deleted
WaterDoc(user, glasses, date) ==
  [user |-> user, glasses |-> glasses, date |-> date, live |-> TRUE]

WaterIds == {i \in 1..Len(water) : water[i].live}

\* Water.findById(id)
FindWaterById(id) == IF id \in WaterIds THEN id ELSE 0

\* a document as .lean() or res.json gives it
Lean(i) ==
  [id |-> i, user |-> water[i].user, glasses |-> water[i].glasses,
   date |-> water[i].date]

\* Water.find({ user: req.user.id })
FindByUser(user) == {i \in WaterIds : water[i].user = user}

\* .sort({ date: -1 }): most recent first, equal dates in insertion order
RECURSIVE SortByDateDesc(_)
SortByDateDesc(S) ==
  IF S = {} THEN <<>>
  ELSE LET m == CHOOSE x \in S :
                  \A y \in S : \/ water[x].date > water[y].date
                               \/ water[x].date = water[y].date /\ x <= y
       IN <<Lean(m)>> \o SortByDateDesc(S \ {m})

\* waterEntries.reduce((sum, entry) => sum + entry.glasses, 0)
RECURSIVE TotalGlasses(_)
TotalGlasses(S) ==
  IF S = {} THEN 0
  ELSE LET m == CHOOSE x \in S : TRUE
       IN water[m].glasses + TotalGlasses(S \ {m})

\* the schema's validators on glasses: min 0, max 50
ValidWater(glasses) == glasses >= 0 /\ glasses <= 50

\* Faulty variant: the upper limit is not tested
OutOfRange_noMax(glasses) == glasses < 0

\* the handlers' test on glasses
OutOfRange(glasses) == glasses < 0 \/ glasses > 50

\* Faulty variant: every entry passes for the requester's
Owns_anyone(entry, user) == TRUE

\* waterEntry.user.toString() === req.user.id
Owns(entry, user) == water[entry].user = user

WaterCont(op, user, entry, glasses, date) ==
  [op |-> op, user |-> user, entry |-> entry, glasses |-> glasses, date |-> date]

\* an answer to the requester user; about is set to <<id, glasses>> of the
\* request answered
WaterResp(op, status, message, user) ==
  [Resp(op, status, message) EXCEPT !.user = user]

\* room for one more entry (bound of the model)
CanAddEntry == Len(water) < MaxEntries

\* the entries of S in the order find returns them without a sort
RECURSIVE InOrder(_)
InOrder(S) ==
  IF S = {} THEN <<>>
  ELSE LET m == CHOOSE x \in S : \A y \in S : x <= y
       IN <<Lean(m)>> \o InOrder(S \ {m})

\* the answer of the three list routes
WaterList(op, user, entries, list) ==
  [WaterResp(op, 200, "", user)
     EXCEPT !.list = list, !.count = Len(list), !.total = TotalGlasses(entries)]

\* POST /: protect, the two tests on glasses, Water.create and the 201
\* answer; 500 when validation fails.  Nothing the handler reads before
\* Water.create can change while it awaits, so it is one step.
PostWater(h, glasses, date) ==
  /\ UNCHANGED <<users, inflight, now, issuedAt, consumed>>
  /\ LET gate == protectResult(h)
         day == IF date = Missing \/ Val(date) = 0 THEN now ELSE Val(date)
     IN IF gate.message # "next"
          THEN resp' = gate /\ UNCHANGED water
        ELSE IF glasses = Missing
          THEN /\ resp' = [WaterResp("POST /water", 400,
                                     "Number of glasses is required", gate.user)
                             EXCEPT !.about = <<0, glasses>>]
               /\ UNCHANGED water
        ELSE IF OutOfRange(Val(glasses))
          THEN /\ resp' = [WaterResp("POST /water", 400,
                                     "Glasses must be between 0 and 50", gate.user)
                             EXCEPT !.about = <<0, glasses>>]
               /\ UNCHANGED water
        ELSE IF ~ValidWater(Val(glasses))
          THEN /\ resp' = [WaterResp("POST /water", 500, "Water validation failed",
                                     gate.user)
                             EXCEPT !.about = <<0, glasses>>]
               /\ UNCHANGED water
        ELSE /\ CanAddEntry
             /\ water' = Append(water, WaterDoc(gate.user, Val(glasses), day))
             /\ resp' = [WaterResp("POST /water", 201, "", gate.user)
                           EXCEPT !.about = <<0, glasses>>,
                                  !.list = <<[id |-> Len(water) + 1,
                                              user |-> gate.user,
                                              glasses |-> Val(glasses),
                                              date |-> day]>>]

\* GET /: the requester's entries, most recent first
GetWater(h) ==
  /\ UNCHANGED <<users, inflight, now, issuedAt, consumed, water>>
  /\ LET gate == protectResult(h)
         found == FindByUser(gate.user)
     IN resp' = IF gate.message # "next" THEN gate
                ELSE WaterList("GET /water", gate.user, found, SortByDateDesc(found))

\* GET /date/:date: the requester's entries of the day that starts at date
GetWaterByDate(h, date) ==
  /\ UNCHANGED <<users, inflight, now, issuedAt, consumed, water>>
  /\ LET gate == protectResult(h)
         found == {i \in FindByUser(gate.user) :
                     water[i].date >= date /\ water[i].date < date + DayMs}
     IN resp' = IF gate.message # "next" THEN gate
                ELSE WaterList("GET /water/date", gate.user, found, InOrder(found))

\* GET /today: the requester's entries since midnight
GetWaterToday(h) ==
  /\ UNCHANGED <<users, inflight, now, issuedAt, consumed, water>>
  /\ LET gate == protectResult(h)
         today == (now \div DayMs) * DayMs
         found == {i \in FindByUser(gate.user) :
                     water[i].date >= today /\ water[i].date < today + DayMs}
     IN resp' = IF gate.message # "next" THEN gate
                ELSE WaterList("GET /water/today", gate.user, found, InOrder(found))

\* the days a period of GET /stats goes back
PeriodDays(period) ==
  IF period = "day" THEN 1
  ELSE IF period = "month" THEN 30
  ELSE IF period = "year" THEN 365
  ELSE 7

\* GET /stats: totals of the requester's entries of the period, the average
\* per entry (in tenths) and the sum of every day
GetWaterStats(h, period) ==
  /\ UNCHANGED <<users, inflight, now, issuedAt, consumed, water>>
  /\ LET gate == protectResult(h)
         found == {i \in FindByUser(gate.user) :
                     water[i].date >= now - PeriodDays(period) * DayMs}
         n == Cardinality(found)
         days == {water[i].date \div DayMs : i \in found}
     IN resp' =
          IF gate.message # "next" THEN gate
          ELSE [WaterResp("GET /water/stats", 200, period, gate.user)
                  EXCEPT !.count = n,
                         !.total = TotalGlasses(found),
                         !.average = IF n = 0 THEN 0
                                     ELSE (TotalGlasses(found) * 20 + n) \div (2 * n),
                         !.data = {[day |-> d,
                                    glasses |-> TotalGlasses(
                                      {i \in found : water[i].date \div DayMs = d})]
                                   : d \in days}]

\* PUT /:id: protect, findById, the owner test, the test on glasses, the
\* fields set on the document; then the handler awaits save.  A field set to
\* the value it has is not modified, and save does not write it.
PutWater(h, id, glasses, date) ==
  /\ UNCHANGED <<users, now, issuedAt, consumed, water>>
  /\ LET gate == protectResult(h)
     IN IF gate.message # "next"
          THEN resp' = gate /\ UNCHANGED inflight
        ELSE IF FindWaterById(id) = 0
          THEN /\ resp' = [WaterResp("PUT /water", 404, "Water entry not found",
                                     gate.user) EXCEPT !.about = <<id, glasses>>]
               /\ UNCHANGED inflight
        ELSE IF ~Owns(id, gate.user)
          THEN /\ resp' = [WaterResp("PUT /water", 403,
                                     "Not authorized to update this entry",
                                     gate.user) EXCEPT !.about = <<id, glasses>>]
               /\ UNCHANGED inflight
        ELSE IF glasses # Missing /\ OutOfRange(Val(glasses))
          THEN /\ resp' = [WaterResp("PUT /water", 400,
                                     "Glasses must be between 0 and 50",
                                     gate.user) EXCEPT !.about = <<id, glasses>>]
               /\ UNCHANGED inflight
        ELSE /\ CanSuspend
             /\ Suspend(WaterCont("water-put", gate.user, id,
                                   glasses \ {water[id].glasses},
                                   date \ {water[id].date}))
             /\ resp' = NoResp

\* the document as save leaves it: the modified fields are written
WaterUpdate(doc, glasses, date) ==
  [doc EXCEPT !.glasses = IF glasses = Missing THEN @ ELSE Val(glasses),
              !.date = IF date = Missing THEN @ ELSE Val(date)]

\* waterEntry.save() and the answer; 500 when the document is gone or when
\* validation fails
PutWaterSave(c) ==
  /\ c.op = "water-put"
  /\ Resume(c)
  /\ UNCHANGED <<users, now, issuedAt, consumed>>
  /\ IF c.entry \notin WaterIds
       THEN /\ UNCHANGED water
            /\ resp' = [WaterResp("PUT /water", 500, "No document found for query",
                                  c.user) EXCEPT !.about = <<c.entry, c.glasses>>]
     ELSE IF c.glasses # Missing /\ ~ValidWater(Val(c.glasses))
       THEN /\ UNCHANGED water
            /\ resp' = [WaterResp("PUT /water", 500, "Water validation failed",
                                  c.user) EXCEPT !.about = <<c.entry, c.glasses>>]
     ELSE /\ water' = [water EXCEPT ![c.entry] = WaterUpdate(@, c.glasses, c.date)]
          /\ resp' = [WaterResp("PUT /water", 200, "", c.user)
                        EXCEPT !.about = <<c.entry, c.glasses>>,
                               !.list = <<[id |-> c.entry, user |-> water[c.entry].user,
                                           glasses |-> water'[c.entry].glasses,
                                           date |-> water'[c.entry].date]>>]

\* DELETE /:id: protect, findById, the owner test; then the handler awaits
\* deleteOne
DeleteWater(h, id) ==
  /\ UNCHANGED <<users, now, issuedAt, consumed, water>>
  /\ LET gate == protectResult(h)
     IN IF gate.message # "next"
          THEN resp' = gate /\ UNCHANGED inflight
        ELSE IF FindWaterById(id) = 0
          THEN /\ resp' = [WaterResp("DELETE /water", 404, "Water entry not found",
                                     gate.user) EXCEPT !.about = <<id, Missing>>]
               /\ UNCHANGED inflight
        ELSE IF ~Owns(id, gate.user)
          THEN /\ resp' = [WaterResp("DELETE /water", 403,
                                     "Not authorized to delete this entry",
                                     gate.user) EXCEPT !.about = <<id, Missing>>]
               /\ UNCHANGED inflight
        ELSE /\ CanSuspend
             /\ Suspend(WaterCont("water-delete", gate.user, id, Missing, Missing))
             /\ resp' = NoResp

\* waterEntry.deleteOne() and the answer
DeleteWaterRemove(c) ==
  /\ c.op = "water-delete"
  /\ Resume(c)
  /\ UNCHANGED <<users, now, issuedAt, consumed>>
  /\ water' = [water EXCEPT ![c.entry].live = FALSE]
  /\ resp' = [WaterResp("DELETE /water", 200, "Water entry deleted successfully",
                        c.user) EXCEPT !.about = <<c.entry, Missing>>]

\* what a client may send: glasses below, at and above the limits or left
\* out, and no date (the entry is dated now); the id of every entry and one
\* more; the days and periods asked for
GlassesSent == {Missing, Num(-1), Num(0), Num(50), Num(51)}
EntryIds == 1..(Len(water) + 1)
DaysAsked == {0, 0 - 8 * DayMs}
Periods == {"day", "week"}

----------------------------------------------------------------------------
(* app.js: the assembled application *)

\* the paths app.js mounts a router at
Mounts == {"/api/auth", "/api/water"}

\* what Express answers when no route matches
NotFound(op) == Resp(op, 404, "Cannot GET /api/user/profile")

\* GET /api/user/profile on the application: the router of routes/user.js if
\* it is mounted, else no route matches
AppGetProfile(h) ==
  IF "/api/user" \in Mounts
    THEN GetProfile(h)
    ELSE /\ resp' = NotFound("GET /api/user/profile")
         /\ UNCHANGED <<users, inflight, now, issuedAt, consumed, water>>

----------------------------------------------------------------------------

ValidName == <<"Ann">>

\* the register bodies a client may send: every email and password with a
\* valid name, one body without a name and one without a password
RegisterBodies ==
  {<<ValidName, e, p>> : e \in Emails, p \in Passwords}
    \cup {<<Absent, <<"b", "@x.com">>, <<"secret1">>>>,
          <<ValidName, <<"a", "@x.com">>, Absent>>}

\* the whole system
Next ==
  \/ \E b \in RegisterBodies : Register(b[1], b[2], b[3])
  \/ \E c \in Inflight : RegisterCreate(c)
  \/ \E e \in Emails, p \in Passwords \cup {Absent} : Login(e, p)
  \/ \E e \in Emails, g \in ProviderIds : GoogleCallback(ValidName, e, g)
  \/ \E c \in Inflight : GoogleCreate(c)
  \/ \E e \in Emails : ForgotPassword(e)
  \/ \E c \in Inflight : ForgotSave(c)
  \/ \E b \in ResetBodies : ResetPassword(b[1], b[2])
  \/ \E c \in Inflight : ResetSave(c)
  \/ \E h \in Headers : protect(h)
  \/ Tick

Spec == Init /\ [][Next]_vars

\* The system restricted to the handlers that create users: registration,
\* login and the Google callback.
NextIdentity ==
  \/ \E b \in RegisterBodies : Register(b[1], b[2], b[3])
  \/ \E c \in Inflight : RegisterCreate(c)
  \/ \E e \in Emails, p \in Passwords \cup {Absent} : Login(e, p)
  \/ \E e \in Emails, g \in ProviderIds : GoogleCallback(ValidName, e, g)
  \/ \E c \in Inflight : GoogleCreate(c)
  \/ Tick

SpecIdentity == Init /\ [][NextIdentity]_vars

\* The system restricted to the handlers that read or write the reset fields
\* and the password.  It starts from a database that registration and the
\* Google callback have filled at time 0 (SeedReachable, under SpecIdentity):
\* no account, the first or both of SeedUsers.
SeedUsers ==
  <<RegisterDoc(ValidName, <<"a", "@x.com">>, <<"secret1">>),
    GoogleDoc(ValidName, <<"b", "@x.com">>, <<"google-id-1">>)>>

InitReset ==
  /\ now = 0
  /\ users \in {SubSeq(SeedUsers, 1, n) : n \in 0..Len(SeedUsers)}
  /\ inflight = EmptyBag
  /\ issuedAt = <<>>
  /\ consumed = {}
  /\ water = <<>>
  /\ resp = NoResp

NextReset ==
  \/ \E e \in Emails : ForgotPassword(e)
  \/ \E c \in Inflight : ForgotSave(c)
  \/ \E b \in ResetBodies : ResetPassword(b[1], b[2])
  \/ \E c \in Inflight : ResetSave(c)
  \/ Tick

SpecReset == InitReset /\ [][NextReset]_vars

\* The reset-token manager with the page check of the web form.
NextPeek ==
  \/ NextReset
  \/ \E k \in ResetTokens \ {Absent} : VerifyResetToken(k)

SpecPeek == InitReset /\ [][NextPeek]_vars

\* The reset-token manager under overlapping reset-password requests: the
\* issued secrets, each with one of two new passwords.
RaceBodies ==
  {<<RandomHex(n), p>> : n \in 1..MaxSecrets, p \in {<<"pw2">>, <<"pw3">>}}

NextRace ==
  \/ \E e \in Emails : ForgotPassword(e)
  \/ \E c \in Inflight : ForgotSave(c)
  \/ \E b \in RaceBodies : ResetPassword(b[1], b[2])
  \/ \E c \in Inflight : ResetSave(c)
  \/ Tick

SpecRace == InitReset /\ [][NextRace]_vars

\* Password recovery followed by login: forgot-password and reset-password
\* with two new passwords, and login with the passwords an account has had,
\* the string the Google callback stored included.
LoginPasswords ==
  {<<"secret1">>, <<"pw2">>, <<"pw3">>, <<"google-oauth-", "0">>}

NextRecover ==
  \/ \E e \in Emails : ForgotPassword(e)
  \/ \E c \in Inflight : ForgotSave(c)
  \/ \E b \in RaceBodies : ResetPassword(b[1], b[2])
  \/ \E c \in Inflight : ResetSave(c)
  \/ \E e \in Emails, p \in LoginPasswords : Login(e, p)

SpecRecover == InitReset /\ [][NextRecover]_vars

\* Sessions opened at time 0 across credential changes: the auth gate and
\* PUT /profile with the tokens issued at time 0, forgot-password and
\* reset-password, and the clock.
SessionHeaders == {Header(Bearer, <<IssuedAt(id, 0)>>) : id \in Ids}

SessionBodies == {<<RandomHex(n), <<"pw2">>>> : n \in 1..MaxSecrets}

NextSession ==
  \/ \E e \in Emails : ForgotPassword(e)
  \/ \E c \in Inflight : ForgotSave(c)
  \/ \E b \in SessionBodies : ResetPassword(b[1], b[2])
  \/ \E c \in Inflight : ResetSave(c)
  \/ \E h \in SessionHeaders, b \in ProfileBodies : PutProfile(h, b[1], b[2])
  \/ \E c \in Inflight : PutProfileUpdate(c)
  \/ \E h \in SessionHeaders : protect(h)
  \/ Tick

SpecSession == InitReset /\ [][NextSession]_vars

\* The system restricted to the auth gate, with registration to create the
\* accounts the tokens are about.
NextGate ==
  \/ \E e \in Emails : Register(ValidName, e, <<"secret1">>)
  \/ \E c \in Inflight : RegisterCreate(c)
  \/ \E h \in Headers : protect(h)
  \/ Tick

SpecGate == Init /\ [][NextGate]_vars

\* The accounts seen through every endpoint that answers with user data or
\* writes a user record: registration, login, check-email, the Google
\* callback, forgot- and reset-password, and the profile routes of
\* routes/user.js behind protect.  The clock stands still.
ProfileHeaders ==
  {NoHeader} \cup {Header(Bearer, <<generateToken(id)>>) : id \in Ids}

NextAccount ==
  \/ Register(ValidName, <<"a", "@x.com">>, <<"secret1">>)
  \/ \E c \in Inflight : RegisterCreate(c)
  \/ \E e \in Emails, p \in Passwords : Login(e, p)
  \/ \E e \in Emails, g \in ProviderIds : GoogleCallback(ValidName, e, g)
  \/ \E c \in Inflight : GoogleCreate(c)
  \/ \E e \in Emails : CheckEmail(e)
  \/ \E e \in Emails : ForgotPassword(e)
  \/ \E c \in Inflight : ForgotSave(c)
  \/ \E b \in ResetBodies : ResetPassword(b[1], b[2])
  \/ \E c \in Inflight : ResetSave(c)
  \/ \E h \in ProfileHeaders : GetProfile(h)
  \/ \E h \in ProfileHeaders, b \in ProfileBodies : PutProfile(h, b[1], b[2])
  \/ \E c \in Inflight : PutProfileUpdate(c)

SpecAccount == Init /\ [][NextAccount]_vars

\* The assembled application as a client walks through it: register, login,
\* then the profile.
NextApp ==
  \/ \E e \in Emails : Register(ValidName, e, <<"secret1">>)
  \/ \E c \in Inflight : RegisterCreate(c)
  \/ \E e \in Emails, p \in Passwords : Login(e, p)
  \/ \E h \in ProfileHeaders : AppGetProfile(h)
  \/ Tick

SpecApp == Init /\ [][NextApp]_vars

\* The water log, for the two accounts of SeedUsers, each with a session
\* token.  The clock stands still.
InitWater ==
  /\ now = 0
  /\ users = SeedUsers
  /\ inflight = EmptyBag
  /\ issuedAt = <<>>
  /\ consumed = {}
  /\ water = <<>>
  /\ resp = NoResp

NextWater ==
  \/ \E h \in ProfileHeaders, g \in GlassesSent : PostWater(h, g, Missing)
  \/ \E h \in ProfileHeaders : GetWater(h)
  \/ \E h \in ProfileHeaders, d \in DaysAsked : GetWaterByDate(h, d)
  \/ \E h \in ProfileHeaders : GetWaterToday(h)
  \/ \E h \in ProfileHeaders, p \in Periods : GetWaterStats(h, p)
  \/ \E h \in ProfileHeaders, i \in EntryIds, g \in GlassesSent :
       PutWater(h, i, g, Missing)
  \/ \E c \in Inflight : PutWaterSave(c)
  \/ \E h \in ProfileHeaders, i \in EntryIds : DeleteWater(h, i)
  \/ \E c \in Inflight : DeleteWaterRemove(c)

SpecWater == InitWater /\ [][NextWater]_vars

----------------------------------------------------------------------------
(* Properties of the reset-token manager, checked under SpecReset *)

\* the raw secrets drawn so far, each handed to a client by forgot-password
Issued == {RandomHex(n) : n \in 1..NumSecrets}

\* some account stores the digest of k with an expiry in the future
Valid(k) ==
  \E i \in Ids : /\ users[i].resetPasswordToken = Sha256(k)
                 /\ users[i].resetPasswordExpire > now

\* k was issued and its hour is over
Expired(k) ==
  \E n \in 1..NumSecrets : k = RandomHex(n) /\ now >= issuedAt[n] + ResetTtlMs

\* the request bodies that carry both a token and a password
Complete == {b \in ResetBodies : b[1] # Absent /\ b[2] # Absent}

\* a step that may belong to a reset-password request
ResetStep == resp'.op = "reset-password" \/ inflight' # inflight

\* C1: a reset secret is single-use.  A reset-password request that carries,
\* with a password, a secret some account holds unexpired is accepted, and
\* its save answers 200; from that answer on, every reset-password request
\* that carries the same raw secret is answered 400 "Invalid or expired reset
\* token", whatever happened in between.
C1_SingleUse ==
  [][ResetStep =>
       /\ \A b \in {x \in Complete : x[1] \in consumed} :
            ResetPassword(b[1], b[2]) => resp' = InvalidOrExpiredToken(b[1])
       /\ \A b \in {x \in Complete : Valid(x[1])} :
            ResetPassword(b[1], b[2]) => resp' = NoResp /\ inflight' # inflight
       /\ \A c \in {d \in Inflight : d.op = "reset"} :
            ResetSave(c) =>
              /\ resp'.status = 200
              /\ c.token \in consumed'
              /\ ~Valid(c.token)'
    ]_vars

\* C1 witness: a secret that was consumed has been presented again and refused
C1_Witness ==
  /\ resp.op = "reset-password"
  /\ resp.status = 400
  /\ resp.about \in consumed

\* C2: a reset-password request (token and password present) whose secret
\* was never issued, or was issued an hour or more ago, is answered 400
\* "Invalid or expired reset token" and changes no user record.
C2_RejectsExpiredAndUnknown ==
  [][ResetStep =>
       \A b \in {x \in Complete : x[1] \notin Issued \/ Expired(x[1])} :
         ResetPassword(b[1], b[2]) =>
           /\ resp' = InvalidOrExpiredToken(b[1])
           /\ users' = users
           /\ inflight' = inflight
    ]_vars

\* C2 witness: an expired secret, still stored and never consumed, was refused
C2_Witness ==
  /\ resp.op = "reset-password"
  /\ resp.status = 400
  /\ Expired(resp.about)
  /\ resp.about \notin consumed
  /\ \E i \in Ids : users[i].resetPasswordToken = Sha256(resp.about)

\* C3 (as claimed): every forgot-password answer is the one generic answer,
\* whether or not the email belongs to an account.
C3_SameResponse ==
  resp.op = "forgot-password" => resp = ForgotGeneric

\* C4: no user record stores a raw reset secret: resetPasswordToken is absent
\* or the sha256 digest of an issued secret, and is no issued secret itself.
C4_NoRawSecret ==
  \A i \in Ids :
    \/ users[i].resetPasswordToken = Absent
    \/ /\ users[i].resetPasswordToken \in {Sha256(k) : k \in Issued}
       /\ users[i].resetPasswordToken \notin Issued

\* C4 witness: a digest is stored
C4_Witness ==
  \E i \in Ids : users[i].resetPasswordToken # Absent

\* C5 (as claimed): a stored reset digest comes with an expiry strictly later
\* than the current time.
C5_FutureExpiry ==
  \A i \in Ids :
    users[i].resetPasswordToken # Absent => users[i].resetPasswordExpire > now

\* C5 (amended): a record holds a reset digest exactly when it holds an
\* expiry, and the expiry is at most one hour after the current time.
C5_PairedExpiry ==
  \A i \in Ids :
    /\ users[i].resetPasswordToken = Absent <=> users[i].resetPasswordExpire = 0
    /\ users[i].resetPasswordExpire <= now + ResetTtlMs

\* C5 witness: an expired pair is still stored, while another account's pair
\* was cleared by its consumption
C5_Witness ==
  /\ \E i \in Ids : /\ users[i].resetPasswordToken # Absent
                    /\ users[i].resetPasswordExpire <= now
  /\ consumed # {}

\* the account that stores the digest of secret k, 0 if none does
HolderOf(k) ==
  LET hit == {i \in Ids : users[i].resetPasswordToken = Sha256(k)}
  IN IF hit = {} THEN 0 ELSE CHOOSE i \in hit : TRUE

\* C22: two forgot-password requests for one account that both read the
\* user before either saves both complete with 200, and the stored digest and
\* expiry are those of the last save: every save of forgot-password answers
\* 200 with its secret, leaves on the account the digest of that secret with
\* the expiry of that save, and makes every secret issued earlier and stored
\* on that account invalid; in every state a stored digest of the n-th secret
\* stands with the expiry written by the n-th save.
C22_LastForgotWins ==
  [][/\ resp'.op = "forgot-password" /\ resp'.resetUrl # Absent =>
          /\ resp'.status = 200
          /\ resp'.resetUrl = RandomHex(NumSecrets')
          /\ \E i \in Ids :
               /\ users'[i].resetPasswordToken = Sha256(resp'.resetUrl)
               /\ users'[i].resetPasswordExpire = now + ResetTtlMs
               /\ \A k \in Issued :
                    HolderOf(k) = i => ~Valid(k)' /\ HolderOf(k)' = 0
               /\ \A j \in Ids \ {i} : users'[j] = users[j]
     /\ \A i \in Ids : \A n \in 1..NumSecrets' :
          users'[i].resetPasswordToken = Sha256(RandomHex(n)) =>
            users'[i].resetPasswordExpire = issuedAt'[n] + ResetTtlMs
    ]_vars

\* C22 witness: the first of two requests for one account has saved, at a
\* time after 0, while the second, which read the user before that save, has
\* still to save
C22_Witness ==
  /\ resp = ForgotIssued(RandomHex(1))
  /\ now > 0
  /\ \E c \in Inflight : c.op = "forgot" /\ c.doc = HolderOf(RandomHex(1))

----------------------------------------------------------------------------
(* Properties of the page check and of overwritten secrets, checked under
   SpecPeek *)

\* C21: verify-reset-token applies the matching rule of reset-password.  In
\* every state it sends a secret to the reset page exactly when some account
\* stores the secret's digest with an expiry in the future, which is exactly
\* when a reset-password request with that secret (and a password) is not
\* refused; and it changes no user record.
C21_PeekMatchesReset ==
  [][/\ resp'.op = "verify-reset-token" =>
          /\ resp'.message = "/reset-password.html?token=" <=> Valid(resp'.about)
          /\ users' = users
     /\ resp'.op = "reset-password" \/ inflight' # inflight =>
          \A b \in Complete :
            ResetPassword(b[1], b[2]) =>
              (resp' = InvalidOrExpiredToken(b[1]) <=> ~Valid(b[1]))
    ]_vars

\* C21 witness: the page check refused an expired secret whose digest is
\* still stored
C21_Witness ==
  /\ resp.op = "verify-reset-token"
  /\ resp.message = "/reset-invalid.html"
  /\ \E i \in Ids : users[i].resetPasswordToken = Sha256(resp.about)

\* the issued secrets that reset-password or the page check accepts for
\* account i, and whether some account accepts secret k
AcceptedFor(i) ==
  {k \in Issued : FindOneByResetToken(k) = i \/ FindOneForVerify(k) = i}
Accepted(k) == FindOneByResetToken(k) # 0 \/ FindOneForVerify(k) # 0

\* C24: at most one reset secret is valid per user.  In every state each
\* account accepts at most one issued secret; the save of a forgot-password
\* makes its own secret the one the account accepts and every secret the
\* account accepted before unaccepted; an issued secret that is not accepted
\* is never accepted again; and a reset-password request or a page check
\* that arrives with a secret that is not accepted is refused.
C24_OneValidSecret ==
  [][/\ \A i \in Ids : Cardinality(AcceptedFor(i)') <= 1
     /\ resp'.op = "forgot-password" /\ resp'.resetUrl # Absent =>
          \E i \in Ids :
            /\ AcceptedFor(i)' = {resp'.resetUrl}
            /\ \A k \in AcceptedFor(i) : ~Accepted(k)'
     /\ \A k \in Issued : ~Accepted(k) => ~Accepted(k)'
     /\ resp'.op = "verify-reset-token" /\ ~Accepted(resp'.about) =>
          resp'.message = "/reset-invalid.html"
     /\ resp'.op = "reset-password" \/ inflight' # inflight =>
          \A b \in Complete :
            ~Accepted(b[1]) /\ ResetPassword(b[1], b[2]) =>
              resp' = InvalidOrExpiredToken(b[1])
    ]_vars

\* C24 witness: the page check refused the first secret, neither consumed nor
\* expired, while the second secret is accepted
C24_Witness ==
  /\ resp.op = "verify-reset-token"
  /\ resp.about = RandomHex(1)
  /\ resp.message = "/reset-invalid.html"
  /\ NumSecrets = 2
  /\ RandomHex(1) \notin consumed /\ ~Expired(RandomHex(1))
  /\ Accepted(RandomHex(2))

----------------------------------------------------------------------------
(* Properties of overlapping reset-password requests, checked under SpecRace *)

\* C23 as claimed: of the reset-password requests that carry one secret at
\* most one returns success, that is, no request is answered 200 for a secret
\* that an earlier request was already answered 200 for.
C23_AtMostOneSuccess ==
  [][resp'.op = "reset-password" /\ resp'.status = 200 =>
       resp'.about \notin consumed]_vars

\* C23 amended: a reset-password request whose findOne runs after another
\* request's save has consumed the secret is refused with 400; a request
\* whose findOne matched always completes with 200, also when another
\* request has consumed the same secret in between, and its save leaves its
\* own new password on the account with the reset digest and expiry cleared
\* (the last writer wins).
C23_OverlapBothSucceed ==
  [][/\ resp'.op = "reset-password" \/ inflight' # inflight =>
          \A b \in RaceBodies :
            b[1] \in consumed /\ ResetPassword(b[1], b[2]) =>
              resp' = InvalidOrExpiredToken(b[1])
     /\ resp'.op = "reset-password" /\ resp'.status = 200 =>
          \A c \in Inflight :
            c.op = "reset" /\ ResetSave(c) =>
              /\ users'[c.doc].password = BcryptHash(c.password)
              /\ users'[c.doc].resetPasswordToken = Absent
              /\ ~Valid(c.token)'
     /\ \A c \in Inflight : c.op = "reset" => ENABLED ResetSave(c)
    ]_vars

\* C23 witness: one request has been answered 200 for a secret while another
\* request with the same secret and another password, whose findOne matched
\* before that save, has still to save
C23_Witness ==
  /\ resp.op = "reset-password" /\ resp.status = 200
  /\ \E c \in Inflight :
       /\ c.op = "reset" /\ c.token = resp.about
       /\ users[c.doc].password # BcryptHash(c.password)

----------------------------------------------------------------------------
(* Properties of login after a password reset, checked under SpecRecover *)

\* C25: after reset-password succeeds for a user with new password P, login
\* with the user's email and P answers 200 with a token for that user, and
\* login with any other password, the previous one included, answers 401;
\* and this stays so until a reset-password succeeds again: no other step
\* changes the outcome of a login.  The accounts include one created by the
\* Google callback.
C25_LoginAfterReset ==
  [][/\ resp'.op = "reset-password" /\ resp'.status = 200 =>
          \A c \in Inflight :
            c.op = "reset" /\ ResetSave(c) =>
              LET e == users[c.doc].email
              IN /\ LoginResponse(e, c.password)'.status = 200
                 /\ LoginResponse(e, c.password)'.user = c.doc
                 /\ LoginResponse(e, c.password)'.token.id = c.doc
                 /\ \A q \in LoginPasswords \ {c.password} :
                      LoginResponse(e, q)' = InvalidCredentials
     /\ ~(resp'.op = "reset-password" /\ resp'.status = 200) =>
          \A i \in Ids : \A q \in LoginPasswords :
            LoginResponse(users[i].email, q)'.status
              = LoginResponse(users[i].email, q).status
    ]_vars

\* C25 witness: a login answered 200 for the account the Google callback
\* created, after a reset-password succeeded for it
C25_Witness ==
  /\ resp.op = "login" /\ resp.status = 200
  /\ resp.user \in Ids
  /\ users[resp.user].authMethod = "google"
  /\ consumed # {}

----------------------------------------------------------------------------
(* Properties of session tokens across credential changes, checked under
   SpecSession *)

\* C26: tokens are not revoked by credential changes.  A step that changes a
\* user record (the save of forgot-password, of reset-password or of a
\* profile update) leaves the gate's answer to every token issued at time 0
\* as it was; and the gate accepts such a token for its user, whatever has
\* happened to the record, at every time before the token's expiry.
C26_TokensSurviveChanges ==
  [][/\ users' # users =>
          \A h \in SessionHeaders : protectResult(h)' = protectResult(h)
     /\ resp'.op = "protect" =>
          \A h \in SessionHeaders :
            protect(h) /\ now \div 1000 < h.rest[1].exp =>
              resp'.message = "next" /\ resp'.user = h.rest[1].id
    ]_vars

\* C26 witness: the gate accepted a token issued at time 0, an hour later,
\* for a user whose password was reset through a secret issued after time 0
\* and whose profile was updated
C26_Witness ==
  /\ resp.message = "next"
  /\ now = TickMs
  /\ issuedAt # <<>> /\ issuedAt[1] > 0
  /\ users[resp.user].password = BcryptHash(<<"pw2">>)
  /\ users[resp.user].name = <<"Bob">>

----------------------------------------------------------------------------
(* Properties of the identity resolver, checked under SpecIdentity *)

\* the database SpecReset starts from is one this specification reaches
SeedReachable == now = 0 /\ users = SeedUsers

\* two emails equal up to letter case
SameEmail(x, y) == ToLowerCase(x) = ToLowerCase(y)

\* some existing user has this email, up to letter case
EmailUsed(email) == \E i \in Ids : SameEmail(users[i].email, email)

\* C6 (as claimed): every login that does not succeed (no user with that
\* email, no password digest, or a password that does not match) gets the one
\* 401 "Invalid email or password" answer.
C6_IdenticalFailure ==
  resp.op = "login" /\ resp.status # 200 => resp = InvalidCredentials

\* C7: for a valid name and password and an email no existing user has,
\* register does not refuse the request, and its create step adds exactly one
\* record, answers 201 with a token that verifies and carries the new
\* record's id, and stores a digest that matches the password and is not the
\* password.
C7_RegisterCreates ==
  [][resp'.op = "register" \/ inflight' # inflight =>
       /\ \A b \in {x \in RegisterBodies : x[3] # Absent /\ ~EmailUsed(x[2])} :
            Register(b[1], b[2], b[3]) => resp' = NoResp /\ inflight' # inflight
       /\ \A c \in {d \in Inflight : d.op = "register" /\ d.name # Absent
                                        /\ ~EmailUsed(d.email)} :
            RegisterCreate(c) =>
              LET id == Len(users) + 1
              IN /\ Len(users') = id
                 /\ SubSeq(users', 1, Len(users)) = users
                 /\ SameEmail(users'[id].email, c.email)
                 /\ users'[id].name = c.name
                 /\ resp'.op = "register" /\ resp'.status = 201
                 /\ resp'.token.id = id
                 /\ JwtVerifies(resp'.token)
                 /\ users'[id].password # c.password
                 /\ BcryptCompare(c.password, users'[id].password)
    ]_vars

\* C7 witness: a registration was answered 201 with a token for the new record
C7_Witness ==
  /\ resp.op = "register" /\ resp.status = 201
  /\ resp.token.id = Len(users)

\* C8: a register request whose email equals, up to letter case, the email
\* of an existing user is answered 400 "User already exists with this email":
\* nothing is created and no record changes.
C8_DuplicateEmail ==
  [][resp'.op = "register" \/ inflight' # inflight =>
       \A b \in {x \in RegisterBodies : EmailUsed(x[2])} :
         Register(b[1], b[2], b[3]) =>
           /\ resp' = DuplicateEmail(b[2])
           /\ users' = users
           /\ inflight' = inflight
    ]_vars

\* C8 witness: the refused email differs in case from the one registered
C8_Witness ==
  /\ resp.op = "register" /\ resp.status = 400
  /\ \E i \in Ids : users[i].email # resp.about /\ SameEmail(users[i].email, resp.about)

\* C9: no two user records have the same email, up to letter case.
C9_UniqueEmail ==
  \A i, j \in Ids : i # j => ~SameEmail(users[i].email, users[j].email)

\* C9 witness: a create was refused by the unique index, so its request had
\* passed the existence check before the other request created the record
C9_Witness ==
  /\ resp.status = 500
  /\ resp.message = "E11000 duplicate key error"
  /\ users # <<>>

\* the bindings of a user record for a provider
Bindings(doc, provider) ==
  SelectSeq(doc.oauthProviders, LAMBDA b : b.provider = provider)

\* C13 (as claimed): external login is idempotent.  Once a Google login has
\* been answered with a token, the same login made again finds the same
\* user, so that its token is for the same user id, and there is exactly one
\* record for the email, with exactly one google binding.
C13_ExternalIdempotent ==
  resp.op = "google" /\ resp.status = 200 =>
    LET e == users[resp.user].email
    IN /\ resp.token.id = resp.user
       /\ GoogleOk(FindOneByEmail(e)).token.id = resp.token.id
       /\ Cardinality({i \in Ids : SameEmail(users[i].email, e)}) = 1
       /\ Len(Bindings(users[resp.user], "google")) = 1

\* C14 (as claimed): a Google login that finds, by email, a user without a
\* google binding appends the binding to that record and updates the
\* auth-method marker, so that afterwards the record has the binding.
C14_LinksProvider ==
  [][\A e \in {x \in Emails : FindOneByEmail(x) # 0}, g \in ProviderIds :
        GoogleCallback(ValidName, e, g)
          /\ Bindings(users[FindOneByEmail(e)], "google") = <<>> =>
            LET doc == users'[FindOneByEmail(e)]
            IN /\ Bindings(doc, "google")
                    = <<[provider |-> "google", providerId |-> g]>>
               /\ doc.authMethod = "google"
    ]_vars

\* C15 (as claimed): the record a Google login creates for an unknown email
\* has method google, exactly one provider binding, and no password value.
C15_CreatedWithoutPassword ==
  [][\A c \in {d \in Inflight : d.op = "google"} :
        GoogleCreate(c) /\ Len(users') = Len(users) + 1 =>
          LET doc == users'[Len(users')]
          IN /\ doc.authMethod = "google"
             /\ Len(doc.oauthProviders) = 1
             /\ doc.password = Absent
    ]_vars


----------------------------------------------------------------------------
(* Properties of the user records and of the answers, checked under
   SpecAccount *)

\* C16: every user record has a password digest or at least one provider
\* binding: no create, profile update, forgot-password or reset-password
\* leaves a record with neither.
C16_DigestOrBinding ==
  \A i \in Ids :
    IsBcryptHash(users[i].password) \/ users[i].oauthProviders # NoProviders

\* C16 witness: a record created by the Google callback has been through
\* forgot- and reset-password and a profile update, next to a registered one
C16_Witness ==
  \E i, j \in Ids :
    /\ users[i].oauthProviders # NoProviders
    /\ users[i].password = BcryptHash(<<"pw2">>)
    /\ users[i].name # ValidName
    /\ users[j].oauthProviders = NoProviders

\* the password values the database stores
StoredPasswords == {users[i].password : i \in Ids}

\* the text fields of a user object in an answer
TextFields == {"name", "email", "avatar", "resetPasswordToken"}

\* C17: no answer of register, login, check-email, the Google callback,
\* forgot-password, reset-password, GET /profile or PUT /profile carries the
\* stored password value of a user: no user object in it has a password
\* field, and none of its text fields and no reset link is a stored password.
C17_NoPasswordInBody ==
  /\ \A d \in resp.data :
       /\ "password" \notin DOMAIN d
       /\ \A f \in TextFields \cap DOMAIN d : d[f] \notin StoredPasswords
  /\ resp.resetUrl \notin StoredPasswords

\* C17 witness: PUT /profile has answered with the updated document of a
\* user who has a stored password
C17_Witness ==
  /\ resp.op = "PUT /profile" /\ resp.status = 200
  /\ \E d \in resp.data : d.name = <<"Bob">>
  /\ users[resp.user].password # Absent

----------------------------------------------------------------------------
(* The application end to end, checked under SpecApp *)

\* C18 (as claimed): when login has answered 200 with token T2 for a
\* registered user, T2 carries that user's id, as the token of the 201
\* answer of register did, and GET /api/user/profile with "Bearer T2" on the
\* application answers 200 with that user's profile, without a password field.
C18_EndToEnd ==
  [][/\ resp.op = "register" /\ resp.status = 201 => resp.token.id = resp.user
     /\ resp.op = "login" /\ resp.status = 200 =>
          /\ resp.token.id = resp.user
          /\ AppGetProfile(Header(Bearer, <<resp.token>>)) =>
                /\ resp'.status = 200
                /\ \E d \in resp'.data :
                     /\ d.email = users[resp.user].email
                     /\ d.name = users[resp.user].name
                     /\ "password" \notin DOMAIN d
    ]_vars

----------------------------------------------------------------------------
(* Properties of the water log, checked under SpecWater *)

ListOps == {"GET /water", "GET /water/date", "GET /water/today"}

\* the entries of a user, and the entry and the glasses of the request an
\* answer is about
EntriesOf(user) == {i \in WaterIds : water[i].user = user}
EntryAsked(r) == r.about[1]
GlassesAsked(r) == r.about[2]

\* C19: a user can neither change nor see another user's water entries.
\* A PUT or DELETE /:id of a logged-in user on an entry of another user is
\* answered 403 and no entry changes; a step changes or deletes an entry only
\* for the entry's owner; every entry of a list, date or today answer is an
\* entry of the requester, and the totals of those and of the stats answer
\* count no glass of another user.
C19_OwnEntriesOnly ==
  [][/\ /\ resp'.op \in {"PUT /water", "DELETE /water"}
        /\ resp'.user # 0
        /\ EntryAsked(resp') \in WaterIds
        /\ water[EntryAsked(resp')].user # resp'.user
        => /\ resp'.status = 403
           /\ water' = water
           /\ inflight' = inflight
     /\ \A i \in 1..Len(water) :
          water'[i] # water[i] => water[i].user = resp'.user
     /\ resp'.op \in ListOps /\ resp'.status = 200 =>
          /\ \A k \in 1..Len(resp'.list) : resp'.list[k].id \in EntriesOf(resp'.user)
          /\ resp'.total <= TotalGlasses(EntriesOf(resp'.user))
     /\ resp'.op = "GET /water/stats" =>
          /\ resp'.count <= Cardinality(EntriesOf(resp'.user))
          /\ resp'.total <= TotalGlasses(EntriesOf(resp'.user))
    ]_vars

\* C19 witness: a request on an entry of another user was answered 403, and
\* the entry is there, with glasses in it
C19_Witness ==
  /\ resp.status = 403
  /\ EntryAsked(resp) \in WaterIds
  /\ water[EntryAsked(resp)].user # resp.user
  /\ water[EntryAsked(resp)].glasses = 50

\* every stored water entry has a glass count from 0 to 50
GlassesInRange ==
  \A i \in 1..Len(water) : water[i].glasses >= 0 /\ water[i].glasses <= 50

\* a create, or an update of an entry by its owner, was asked with glasses
\* below 0 or above 50
AskedOutOfRange(r) ==
  /\ r.op \in {"POST /water", "PUT /water"}
  /\ r.user # 0
  /\ r.op = "PUT /water" => EntryAsked(r) \in EntriesOf(r.user)
  /\ GlassesAsked(r) # Missing
  /\ Val(GlassesAsked(r)) < 0 \/ Val(GlassesAsked(r)) > 50

\* C20: a create, or an update by the owner, with glasses below 0 or above
\* 50 is answered 400 and stores or modifies nothing; a create with glasses
\* 0 is answered 201 and stores the entry; and every stored water entry has a
\* glass count from 0 to 50.
C20_GlassesBounded ==
  [][/\ GlassesInRange'
     /\ AskedOutOfRange(resp') =>
          /\ resp'.status = 400
          /\ water' = water
          /\ inflight' = inflight
     /\ resp'.op = "POST /water" /\ resp'.user # 0 /\ GlassesAsked(resp') = Num(0) =>
          /\ resp'.status = 201
          /\ Len(water') = Len(water) + 1
          /\ water'[Len(water')].glasses = 0
    ]_vars

\* C20 witness: an update of an entry by its owner was refused for its
\* glasses, next to an entry stored with glasses 0
C20_Witness ==
  /\ AskedOutOfRange(resp)
  /\ resp.op = "PUT /water" /\ resp.status = 400
  /\ \E i \in WaterIds : water[i].glasses = 0

----------------------------------------------------------------------------
(* Properties of the auth gate, checked under SpecGate *)

\* the header is exactly "Bearer <token>"
BearerForm(h) == h.scheme = Bearer /\ Len(h.rest) = 1 /\ h.rest[1] # NoJwt

\* C10 (as claimed): the gate calls the handler only for a header of the form
\* "Bearer <token>" whose token verifies and whose subject is an existing
\* user, with that user as the identity; in every other case it answers 401.
C10_GateOnlyBearer ==
  [][\A h \in Headers :
        protect(h) =>
          IF BearerForm(h) /\ JwtVerifies(h.rest[1]) /\ h.rest[1].id \in Ids
            THEN resp'.message = "next" /\ resp'.user = h.rest[1].id
            ELSE resp'.status = 401 /\ resp'.user = 0
    ]_vars

\* C11 (as claimed): every 401 of the gate is one and the same response,
\* whichever check failed.
C11_UniformFailure ==
  resp.op = "protect" /\ resp.status = 401 => resp.message = Unauthorized.message

\* a token as generateToken signs it for an existing user
Genuine(k) ==
  /\ k.id \in Ids
  /\ k.exp = k.iat + JWT_EXPIRE
  /\ k.sig = Hs256("JWT_SECRET", k.id, k.iat, k.exp)

\* C12: a token signed for an existing user at second t with lifetime L and
\* presented as "Bearer <token>" is accepted, with that user as the identity,
\* at every time before t + L, and answered 401 at every time after t + L; a
\* token whose payload or signature is not what was signed is answered 401
\* at all times.
C12_TokenLifetime ==
  [][\A h \in {x \in Headers : BearerForm(x)} :
        protect(h) =>
          LET k == h.rest[1]
          IN /\ Genuine(k) /\ now \div 1000 < k.iat + JWT_EXPIRE =>
                  resp'.message = "next" /\ resp'.user = k.id
             /\ Genuine(k) /\ now \div 1000 > k.iat + JWT_EXPIRE =>
                  resp' = [Unauthorized EXCEPT !.about = h.scheme]
             /\ k.sig # Hs256("JWT_SECRET", k.id, k.iat, k.exp) =>
                  resp' = [Unauthorized EXCEPT !.about = h.scheme]
    ]_vars

\* C12 witness: the gate has let a request through on a token issued at an
\* earlier time, and the clock has since gone past the end of its lifetime
C12_Witness ==
  /\ resp.message = "next"
  /\ now \div 1000 > JWT_EXPIRE

====
